---- MODULE Spec2Model ----
(***************************************************************************)
(* A model of the ziv modal editor: the line buffer (src/src/buffer.rs)    *)
(* and the editor's run loop, key handlers and action dispatcher           *)
(* (src/src/editor.rs).                                                    *)
(*                                                                         *)
(* Representation.                                                         *)
(*   - A Rust String that holds buffer text is a sequence of UTF-8 bytes,  *)
(*     each byte written as a token: an ASCII character is its own token   *)
(*     ("a", "\n"), the two bytes of U+00E9 are "C3" and "A9".  len() is   *)
(*     the number of bytes, as in Rust, and String::insert / remove panic  *)
(*     off a character boundary, as in Rust.                               *)
(*   - The command line, a path and a message are sequences of characters  *)
(*     (push and pop work on characters).                                  *)
(*   - Option<T> is a sequence of length 0 (None) or 1 (Some).             *)
(*   - A function that returns Result carries its outcome in the field     *)
(*     ret: "Ok", "Err" (an error value, propagated by `?`) or "Panic".    *)
(*   - Drawing writes to the terminal only and is not part of the state.   *)
(*     On the 80 columns of the terminals modelled every status line fits  *)
(*     (at most 20 + 47 characters), so the padding of draw_status_line    *)
(*     never underflows.  Inside the run loop, failures of the terminal    *)
(*     itself (an error from read, queue or flush) are outside the model.  *)
(*   - The variable terminal is the terminal the process runs on: whether  *)
(*     it is in raw mode, how often raw mode was enabled and disabled, and *)
(*     its real size (columns, rows).                                      *)
(*   - u16 arithmetic that leaves 0..65535 wraps in a build without        *)
(*     overflow checks (release) and panics in a build with them (debug);  *)
(*     the variable overflow_checks says which build runs.  The sessions   *)
(*     of a few lines on a terminal of a few rows never leave the range,   *)
(*     where both builds agree; SpecRows runs both builds on long buffers  *)
(*     and tall terminals.                                                 *)
(***************************************************************************)
EXTENDS Integers, Sequences, FiniteSets, TLC

VARIABLES buffers, active_buffer, size, cx, cy, mode, exit, scroll_offset,
          command_line, status_message, pc, run_result, key, terminal,
          overflow_checks

vars == <<buffers, active_buffer, size, cx, cy, mode, exit, scroll_offset,
          command_line, status_message, pc, run_result, key, terminal,
          overflow_checks>>

(***************************************************************************)
(* Bounds of the model.                                                    *)
(***************************************************************************)
\* The most lines all open buffers hold together (NewLine stops there).
MaxLines == 4
\* The most bytes of text all open buffers hold together (AddChar stops there).
MaxBytes == 3

(***************************************************************************)
(* Integer helpers: u16 fields and usize saturating arithmetic.            *)
(***************************************************************************)
U16Modulus == 65536

AsU16(n) == n % U16Modulus

SaturatingSub(a, b) == IF a > b THEN a - b ELSE 0

Min(a, b) == IF a <= b THEN a ELSE b

\* Whether the result n of a u16 operation is a u16.
InU16(n) == 0 <= n /\ n < U16Modulus

None == <<>>

Some(x) == <<x>>

(***************************************************************************)
(* Strings as UTF-8 byte sequences.                                        *)
(***************************************************************************)
\* The bytes 10xxxxxx, which are never the first byte of a character.
ContinuationBytes == {"A9"}

\* char::encode_utf8: U+00E9 is the two bytes C3 A9, an ASCII character one byte.
encode_utf8(ch) == IF ch = "U+E9" THEN <<"C3", "A9">> ELSE <<ch>>

\* str::is_char_boundary(idx): 0, len, or a byte that starts a character.
is_char_boundary(s, idx) ==
    \/ idx = 0
    \/ idx = Len(s)
    \/ idx < Len(s) /\ s[idx + 1] \notin ContinuationBytes

\* The width in bytes of the character that starts at byte idx (0-based).
RECURSIVE CharWidthAt(_, _)
CharWidthAt(s, idx) ==
    IF idx + 1 < Len(s) /\ s[idx + 2] \in ContinuationBytes
    THEN 1 + CharWidthAt(s, idx + 1)
    ELSE 1

\* String::insert(idx, ch): panics unless idx is a character boundary.
StringInsert(s, idx, ch) ==
    IF ~is_char_boundary(s, idx)
    THEN [ret |-> "Panic", s |-> s]
    ELSE [ret |-> "Ok",
          s |-> SubSeq(s, 1, idx) \o encode_utf8(ch) \o SubSeq(s, idx + 1, Len(s))]

\* String::remove(idx): removes the whole character at byte idx; panics at or
\* past the end and off a character boundary.
StringRemove(s, idx) ==
    IF idx >= Len(s) \/ ~is_char_boundary(s, idx)
    THEN [ret |-> "Panic", s |-> s]
    ELSE [ret |-> "Ok",
          s |-> SubSeq(s, 1, idx) \o SubSeq(s, idx + CharWidthAt(s, idx) + 1, Len(s))]

\* str::lines(): the pieces between "\n", without a final empty piece.
RECURSIVE StrLines(_)
StrLines(contents) ==
    IF contents = <<>> THEN <<>>
    ELSE IF \E i \in 1..Len(contents) : contents[i] = "\n"
    THEN LET i == CHOOSE j \in 1..Len(contents) :
                      /\ contents[j] = "\n"
                      /\ \A k \in 1..(j - 1) : contents[k] # "\n"
         IN  <<SubSeq(contents, 1, i - 1)>> \o StrLines(SubSeq(contents, i + 1, Len(contents)))
    ELSE <<contents>>

\* Vec::insert(idx, x) and Vec::remove(idx), idx 0-based.
VecInsert(v, idx, x) == SubSeq(v, 1, idx) \o <<x>> \o SubSeq(v, idx + 1, Len(v))

VecRemove(v, idx) == SubSeq(v, 1, idx) \o SubSeq(v, idx + 2, Len(v))

(***************************************************************************)
(* Buffer (src/src/buffer.rs).  A buffer is [file, lines, is_modified].    *)
(***************************************************************************)
\* Buffer::new(file, contents)
BufferNew(file, contents) ==
    [file |-> file,
     lines |-> IF contents = <<>> THEN <<(<<>>)>> ELSE StrLines(contents),
     is_modified |-> FALSE]

\* Buffer::from_file(path) for a path that does not exist (exists = FALSE) or
\* one whose contents were read.
from_file(path, exists, contents) ==
    IF ~exists
    THEN [file |-> Some(path), lines |-> <<(<<>>)>>, is_modified |-> FALSE]
    ELSE [file |-> Some(path),
          lines |-> IF contents = <<>> THEN <<(<<>>)>> ELSE StrLines(contents),
          is_modified |-> FALSE]

\* Buffer::len
BufLen(b) == Len(b.lines)

\* Buffer::get_line(idx): indexing, for idx in range.
get_line(b, idx) == b.lines[idx + 1]

\* Buffer::insert_new_line(cy, _cx): an empty line before row cy; _cx is unused.
insert_new_line(b, row, col) ==
    [b EXCEPT !.lines = VecInsert(b.lines, row, <<>>), !.is_modified = TRUE]

\* Buffer::insert_char(cx, cy, c): is_modified is not touched.
insert_char(b, col, row, c) ==
    IF row >= Len(b.lines)
    THEN [ret |-> "Err", msg |-> <<"Invalid line index">>, buf |-> b]
    ELSE IF col > Len(b.lines[row + 1])
    THEN [ret |-> "Err", msg |-> <<"Invalid column index">>, buf |-> b]
    ELSE LET r == StringInsert(b.lines[row + 1], col, c)
         IN  IF r.ret = "Panic"
             THEN [ret |-> "Panic", msg |-> <<"String::insert">>, buf |-> b]
             ELSE [ret |-> "Ok", msg |-> <<>>,
                   buf |-> [b EXCEPT !.lines[row + 1] = r.s]]

\* Buffer::remove_char(cx, cy)
remove_char(b, col, row) ==
    IF row >= Len(b.lines)
    THEN [ret |-> "Err", msg |-> <<"Invalid line index">>, buf |-> b]
    ELSE IF col >= Len(b.lines[row + 1])
    THEN [ret |-> "Err", msg |-> <<"Invalid column index">>, buf |-> b]
    ELSE LET r == StringRemove(b.lines[row + 1], col)
         IN  IF r.ret = "Panic"
             THEN [ret |-> "Panic", msg |-> <<"String::remove">>, buf |-> b]
             ELSE [ret |-> "Ok", msg |-> <<>>,
                   buf |-> [b EXCEPT !.lines[row + 1] = r.s, !.is_modified = TRUE]]

\* remove_line that removes the first line whatever the row.
remove_line_first(b, row) ==
    IF row >= Len(b.lines)
    THEN [ret |-> "Err", msg |-> <<"Invalid line index">>, buf |-> b, line |-> <<>>]
    ELSE IF Len(b.lines) = 1
    THEN [ret |-> "Ok", msg |-> <<>>, line |-> b.lines[1],
          buf |-> [b EXCEPT !.lines = <<(<<>>)>>, !.is_modified = TRUE]]
    ELSE [ret |-> "Ok", msg |-> <<>>, line |-> b.lines[1],
          buf |-> [b EXCEPT !.lines = VecRemove(b.lines, 0), !.is_modified = TRUE]]

\* remove_line without the case of the only line.
remove_line_shrinks(b, row) ==
    IF row >= Len(b.lines)
    THEN [ret |-> "Err", msg |-> <<"Invalid line index">>, buf |-> b, line |-> <<>>]
    ELSE [ret |-> "Ok", msg |-> <<>>, line |-> b.lines[row + 1],
          buf |-> [b EXCEPT !.lines = VecRemove(b.lines, row), !.is_modified = TRUE]]

\* Buffer::remove_line(cy): the only line is emptied in place.  The removed
\* text is returned in `line`.
remove_line(b, row) ==
    IF row >= Len(b.lines)
    THEN [ret |-> "Err", msg |-> <<"Invalid line index">>, buf |-> b, line |-> <<>>]
    ELSE IF Len(b.lines) = 1
    THEN [ret |-> "Ok", msg |-> <<>>, line |-> b.lines[1],
          buf |-> [b EXCEPT !.lines = <<(<<>>)>>, !.is_modified = TRUE]]
    ELSE [ret |-> "Ok", msg |-> <<>>, line |-> b.lines[row + 1],
          buf |-> [b EXCEPT !.lines = VecRemove(b.lines, row), !.is_modified = TRUE]]

\* Buffer::save(): write_ok is whether std::fs::write succeeds.
save(b, write_ok) ==
    IF b.file = None
    THEN [ret |-> "Err", msg |-> <<"No file associated with this buffer">>, buf |-> b]
    ELSE IF ~write_ok
    THEN [ret |-> "Err", msg |-> <<"Failed to save file">>, buf |-> b]
    ELSE [ret |-> "Ok", msg |-> <<>>, buf |-> [b EXCEPT !.is_modified = FALSE]]

\* Buffer::save_as(path)
save_as(b, path, write_ok) ==
    IF ~write_ok
    THEN [ret |-> "Err", msg |-> <<"Failed to save file">>, buf |-> b]
    ELSE [ret |-> "Ok", msg |-> <<>>,
          buf |-> [b EXCEPT !.file = Some(path), !.is_modified = FALSE]]

(***************************************************************************)
(* Editor (src/src/editor.rs).  The operators below work on a record e     *)
(* that holds the Editor's fields together with the outcome (ret, msg) of  *)
(* the call in progress.                                                   *)
(***************************************************************************)
Self ==
    [buffers |-> buffers, active_buffer |-> active_buffer, size |-> size,
     cx |-> cx, cy |-> cy, mode |-> mode, exit |-> exit,
     scroll_offset |-> scroll_offset, command_line |-> command_line,
     status_message |-> status_message, overflow_checks |-> overflow_checks,
     ret |-> "Ok", msg |-> <<>>]

\* Editor::current_buffer
current_buffer(e) == e.buffers[e.active_buffer + 1]

\* Editor::set_status_message (the Instant is not kept)
set_status_message(e, m) == [e EXCEPT !.status_message = Some(m)]

\* A panic with message m in the call in progress.
Panic(e, m) == [e EXCEPT !.ret = "Panic", !.msg = <<m>>]

\* Editor::visible_lines
visible_lines(e) == SaturatingSub(e.size[2], 2)

\* adjust_scroll that leaves the cursor row one below the window.
adjust_scroll_off_by_one(e) ==
    LET v  == visible_lines(e)
        s1 == IF e.cy < e.scroll_offset THEN e.cy ELSE e.scroll_offset
        s2 == IF e.cy >= AsU16(s1 + v) THEN AsU16(e.cy - v) ELSE s1
    IN  [e EXCEPT !.scroll_offset = s2]

\* Editor::adjust_scroll.  With overflow checks the sum scroll_offset +
\* visible_lines panics out of range (then cy - visible_lines + 1 is in range).
adjust_scroll(e) ==
    LET v  == visible_lines(e)
        s1 == IF e.cy < e.scroll_offset THEN e.cy ELSE e.scroll_offset
        s2 == IF e.cy >= AsU16(s1 + v) THEN AsU16(AsU16(e.cy - v) + 1) ELSE s1
    IN  IF e.overflow_checks /\ ~InU16(s1 + v)
        THEN Panic([e EXCEPT !.scroll_offset = s1], "attempt to add with overflow")
        ELSE [e EXCEPT !.scroll_offset = s2]

\* adjust_cursor_position that clamps the column to the line length in every mode.
adjust_cursor_position_past_end(e) ==
    LET max_cy == AsU16(SaturatingSub(BufLen(current_buffer(e)), 1))
        row    == Min(e.cy, max_cy)
        line_len == Len(get_line(current_buffer(e), row))
        col    == IF e.mode # "Insert" THEN Min(e.cx, AsU16(line_len)) ELSE e.cx
    IN  adjust_scroll([e EXCEPT !.cy = row, !.cx = col])

\* Editor::adjust_cursor_position
adjust_cursor_position(e) ==
    LET max_cy == AsU16(SaturatingSub(BufLen(current_buffer(e)), 1))
        row    == Min(e.cy, max_cy)
        line_len == Len(get_line(current_buffer(e), row))
        col    == IF e.mode # "Insert"
                  THEN Min(e.cx, AsU16(SaturatingSub(line_len, 1)))
                  ELSE e.cx
    IN  adjust_scroll([e EXCEPT !.cy = row, !.cx = col])

\* EnterMode that enters Command mode whatever the mode asked for.
enter_mode_command(e, m) == [e EXCEPT !.mode = "Command"]

\* Action::EnterMode(mode)
enter_mode(e, m) == [e EXCEPT !.mode = m]

\* Action::NextBuffer: the index after `active` among n buffers.
next_buffer(active, n) == (active + 1) % n

\* PreviousBuffer that stops at the first buffer.
previous_buffer_stops(active, n) == IF active = 0 THEN 0 ELSE active - 1

\* Action::PreviousBuffer: the index before `active` among n buffers.
previous_buffer(active, n) == IF active = 0 THEN n - 1 ELSE active - 1

\* The outcome of a failed buffer call, propagated by `?`.
Propagate(e, r) == [e EXCEPT !.ret = r.ret, !.msg = r.msg]

\* The active buffer replaced by b.
WithBuffer(e, b) == [e EXCEPT !.buffers[e.active_buffer + 1] = b]

\* Editor::handle_action.  An action is a record with a field type and, where
\* the variant carries one, ch, mode or path.  write_ok is whether a write to
\* the file system succeeds.  Action::ExecuteCommand is built by no handler.
handle_action(e, a, write_ok) ==
    CASE a.type = "Quit" -> [e EXCEPT !.exit = TRUE]
      [] a.type = "Save" ->
            LET r == save(current_buffer(e), write_ok)
            IN  IF r.ret # "Ok" THEN Propagate(e, r)
                ELSE set_status_message(WithBuffer(e, r.buf), <<"File saved">>)
      [] a.type = "SaveAs" ->
            LET r == save_as(current_buffer(e), a.path, write_ok)
            IN  IF r.ret # "Ok" THEN Propagate(e, r)
                ELSE set_status_message(WithBuffer(e, r.buf), <<"File saved as">>)
      [] a.type = "MoveUp" ->
            IF e.cy > 0 THEN [e EXCEPT !.cy = e.cy - 1] ELSE e
      [] a.type = "MoveDown" ->
            LET len16 == AsU16(BufLen(current_buffer(e)))
            IN  IF e.overflow_checks /\ ~InU16(len16 - 1)
                THEN Panic(e, "attempt to subtract with overflow")
                ELSE IF e.cy < AsU16(len16 - 1)
                THEN [e EXCEPT !.cy = AsU16(e.cy + 1)] ELSE e
      [] a.type = "MoveLeft" ->
            IF e.cx > 0 THEN [e EXCEPT !.cx = e.cx - 1] ELSE e
      [] a.type = "MoveRight" ->
            LET line_len == AsU16(Len(get_line(current_buffer(e), e.cy)))
            IN  IF e.cx < line_len THEN [e EXCEPT !.cx = AsU16(e.cx + 1)] ELSE e
      [] a.type = "MoveStartOfLine" -> [e EXCEPT !.cx = 0]
      [] a.type = "MoveEndOfLine" ->
            [e EXCEPT !.cx = AsU16(Len(get_line(current_buffer(e), e.cy)))]
      [] a.type = "PageUp" ->
            [e EXCEPT !.cy = SaturatingSub(e.cy, visible_lines(e))]
      [] a.type = "PageDown" ->
            LET len16 == AsU16(BufLen(current_buffer(e)))
            IN  IF e.overflow_checks /\ ~InU16(e.cy + visible_lines(e))
                THEN Panic(e, "attempt to add with overflow")
                ELSE IF e.overflow_checks /\ ~InU16(len16 - 1)
                THEN Panic(e, "attempt to subtract with overflow")
                ELSE [e EXCEPT !.cy = Min(AsU16(e.cy + visible_lines(e)),
                                          AsU16(len16 - 1))]
      [] a.type = "AddChar" ->
            LET r == insert_char(current_buffer(e), e.cx, e.cy, a.ch)
            IN  IF r.ret # "Ok" THEN Propagate(e, r)
                ELSE IF e.overflow_checks /\ ~InU16(e.cx + 1)
                THEN Panic(WithBuffer(e, r.buf), "attempt to add with overflow")
                ELSE [WithBuffer(e, r.buf) EXCEPT !.cx = AsU16(e.cx + 1)]
      [] a.type = "NewLine" ->
            LET e1 == [WithBuffer(e, insert_new_line(current_buffer(e), e.cy, e.cx))
                          EXCEPT !.cx = 0]
            IN  IF e.overflow_checks /\ ~InU16(e.cy + 1)
                THEN Panic(e1, "attempt to add with overflow")
                ELSE [e1 EXCEPT !.cy = AsU16(e.cy + 1)]
      [] a.type = "DeleteChar" ->
            LET r == remove_char(current_buffer(e), e.cx, e.cy)
            IN  IF r.ret # "Ok" THEN Propagate(e, r)
                ELSE IF e.cx > 0
                     THEN [WithBuffer(e, r.buf) EXCEPT !.cx = e.cx - 1]
                     ELSE WithBuffer(e, r.buf)
      [] a.type = "DeleteLine" ->
            LET r == remove_line(current_buffer(e), e.cy)
            IN  IF r.ret # "Ok" THEN Propagate(e, r) ELSE WithBuffer(e, r.buf)
      [] a.type = "EnterMode" -> enter_mode(e, a.mode)
      [] a.type = "NextBuffer" ->
            [e EXCEPT !.active_buffer = next_buffer(e.active_buffer, Len(e.buffers))]
      [] a.type = "PreviousBuffer" ->
            [e EXCEPT !.active_buffer = previous_buffer(e.active_buffer, Len(e.buffers))]

Act(t) == [type |-> t]

\* str::split_whitespace on a sequence of characters.
RECURSIVE split_whitespace(_)
split_whitespace(s) ==
    IF s = <<>> THEN <<>>
    ELSE IF s[1] = " " THEN split_whitespace(Tail(s))
    ELSE LET n == IF \E i \in 1..Len(s) : s[i] = " "
                  THEN (CHOOSE i \in 1..Len(s) :
                            s[i] = " " /\ \A j \in 1..(i - 1) : s[j] # " ") - 1
                  ELSE Len(s)
         IN  <<SubSeq(s, 1, n)>> \o split_whitespace(SubSeq(s, n + 1, Len(s)))

\* The guard of `q` / `quit` in Editor::handle_command: the active buffer has
\* unsaved changes.
quit_refused_never(e) == FALSE

quit_refused(e) == current_buffer(e).is_modified

\* Editor::handle_command
handle_command(e, command, write_ok) ==
    LET parts == split_whitespace(command)
    IN  IF parts = <<>> THEN e
        ELSE IF parts[1] \in {<<"w">>, <<"w", "r", "i", "t", "e">>}
        THEN IF Len(parts) > 1
             THEN handle_action(e, [type |-> "SaveAs", path |-> parts[2]], write_ok)
             ELSE handle_action(e, Act("Save"), write_ok)
        ELSE IF parts[1] \in {<<"q">>, <<"q", "u", "i", "t">>}
        THEN IF ~quit_refused(e)
             THEN handle_action(e, Act("Quit"), write_ok)
             ELSE set_status_message(e,
                      <<"No write since last change (add ! to override)">>)
        ELSE IF parts[1] \in {<<"q", "!">>, <<"q", "u", "i", "t", "!">>}
        THEN handle_action(e, Act("Quit"), write_ok)
        ELSE IF parts[1] = <<"w", "q">>
        THEN LET e1 == handle_action(e, Act("Save"), write_ok)
             IN  IF e1.ret # "Ok" THEN e1
                 ELSE handle_action(e1, Act("Quit"), write_ok)
        ELSE set_status_message(e, <<"Unknown command: ", command>>)

(***************************************************************************)
(* Key events: [code, ch, modifiers].                                      *)
(***************************************************************************)
KeyChar(c) == [code |-> "Char", ch |-> c, modifiers |-> "NONE"]

CtrlChar(c) == [code |-> "Char", ch |-> c, modifiers |-> "CONTROL"]

KeyCode(name) == [code |-> name, ch |-> "", modifiers |-> "NONE"]

\* Editor::handle_normal_key: the first arm that matches decides.
normal_key_action(k) ==
    IF k.code = "Char" /\ k.ch = ":" THEN Some([type |-> "EnterMode", mode |-> "Command"])
    ELSE IF k.code = "Char" /\ k.ch = "i" THEN Some([type |-> "EnterMode", mode |-> "Insert"])
    ELSE IF k.code = "Up" \/ (k.code = "Char" /\ k.ch = "k") THEN Some(Act("MoveUp"))
    ELSE IF k.code = "Down" \/ (k.code = "Char" /\ k.ch = "j") THEN Some(Act("MoveDown"))
    ELSE IF k.code = "Left" \/ (k.code = "Char" /\ k.ch = "h") THEN Some(Act("MoveLeft"))
    ELSE IF k.code = "Right" \/ (k.code = "Char" /\ k.ch = "l") THEN Some(Act("MoveRight"))
    ELSE IF k.code = "Char" /\ k.ch = "0" THEN Some(Act("MoveStartOfLine"))
    ELSE IF k.code = "Char" /\ k.ch = "$" THEN Some(Act("MoveEndOfLine"))
    ELSE IF k.code = "Char" /\ k.ch = "n" THEN Some(Act("NextBuffer"))
    ELSE IF k.code = "Char" /\ k.ch = "p" THEN Some(Act("PreviousBuffer"))
    ELSE IF k.code = "Char" /\ k.ch = "d" /\ k.modifiers = "CONTROL" THEN Some(Act("PageDown"))
    ELSE IF k.code = "Char" /\ k.ch = "u" /\ k.modifiers = "CONTROL" THEN Some(Act("PageUp"))
    ELSE IF k.code = "Char" /\ k.ch = "w" /\ k.modifiers = "CONTROL" THEN Some(Act("Save"))
    ELSE IF k.code = "Char" /\ k.ch = "d" THEN Some(Act("DeleteLine"))
    ELSE None

handle_normal_key(e, k, write_ok) ==
    LET action == normal_key_action(k)
    IN  IF action # None THEN handle_action(e, action[1], write_ok) ELSE e

\* Editor::handle_insert_key
handle_insert_key(e, k, write_ok) ==
    CASE k.code = "Esc" ->
            handle_action(e, [type |-> "EnterMode", mode |-> "Normal"], write_ok)
      [] k.code = "Enter" -> handle_action(e, Act("NewLine"), write_ok)
      [] k.code = "Backspace" ->
            IF e.cx > 0
            THEN handle_action([e EXCEPT !.cx = e.cx - 1], Act("DeleteChar"), write_ok)
            ELSE e
      [] k.code = "Char" ->
            handle_action(e, [type |-> "AddChar", ch |-> k.ch], write_ok)
      [] OTHER -> e

\* String::clear that leaves the text.
clear_keeps_text(s) == s

\* String::clear
clear(s) == <<>>

\* Editor::handle_command_key
handle_command_key(e, k, write_ok) ==
    CASE k.code = "Esc" ->
            handle_action([e EXCEPT !.command_line = clear(e.command_line)],
                          [type |-> "EnterMode", mode |-> "Normal"], write_ok)
      [] k.code = "Enter" ->
            LET command == e.command_line
                e1 == handle_command([e EXCEPT !.command_line = <<>>], command, write_ok)
            IN  IF e1.ret # "Ok" THEN e1
                ELSE handle_action(e1, [type |-> "EnterMode", mode |-> "Normal"], write_ok)
      [] k.code = "Backspace" ->
            IF e.command_line # <<>>
            THEN [e EXCEPT !.command_line = SubSeq(e.command_line, 1, Len(e.command_line) - 1)]
            ELSE e
      [] k.code = "Char" -> [e EXCEPT !.command_line = Append(e.command_line, k.ch)]
      [] OTHER -> e

\* The match on self.mode in Editor::run.
handle_key(e, k, write_ok) ==
    CASE e.mode = "Normal"  -> handle_normal_key(e, k, write_ok)
      [] e.mode = "Insert"  -> handle_insert_key(e, k, write_ok)
      [] e.mode = "Command" -> handle_command_key(e, k, write_ok)

(***************************************************************************)
(* The environment: the files named on the command line, the terminal      *)
(* size, and the keys the user presses.                                    *)
(***************************************************************************)
\* Files of the startup file system: a path that does not exist yet, a file
\* of three lines ("a", "", U+00E9), one of two lines and one of one line.
MissingFile == [path |-> <<"n">>, exists |-> FALSE, contents |-> <<>>]

ThreeLineFile ==
    [path |-> <<"f">>, exists |-> TRUE, contents |-> <<"a", "\n", "\n", "C3", "A9">>]

TwoLineFile == [path |-> <<"f">>, exists |-> TRUE, contents |-> <<"a", "\n", "a">>]

OneLineFile == [path |-> <<"g">>, exists |-> TRUE, contents |-> <<"a", "\n">>]

\* main: one scratch buffer without arguments, else one buffer per argument
\* (std::env::args, less the program name).
main_buffers(args) ==
    IF args = <<>>
    THEN <<BufferNew(None, <<"\n">>)>>
    ELSE [i \in 1..Len(args) |->
             from_file(args[i].path, args[i].exists, args[i].contents)]

NoKey == KeyCode("None")

NormalKeys ==
    {KeyChar(":"), KeyChar("i"), KeyChar("k"), KeyChar("j"), KeyChar("h"),
     KeyChar("l"), KeyChar("0"), KeyChar("$"), KeyChar("n"), KeyChar("p"),
     KeyChar("d"), CtrlChar("d"), CtrlChar("u"), CtrlChar("w"), KeyChar("u"),
     KeyCode("Up"), KeyCode("Down"), KeyCode("Left"), KeyCode("Right"),
     KeyCode("Esc")}

InsertKeys ==
    {KeyCode("Esc"), KeyCode("Enter"), KeyCode("Backspace"), KeyCode("Tab"),
     KeyChar("a"), KeyChar("U+E9")}

CommandChars == {"q", "u", "i", "t", "!", "w", "r", "e", " ", "h", "x"}

CommandKeys ==
    {KeyCode("Esc"), KeyCode("Enter"), KeyCode("Backspace"), KeyCode("Tab")}
        \cup {KeyChar(c) : c \in CommandChars}

AllKeys == NormalKeys \cup InsertKeys \cup CommandKeys

IsPrefix(s, t) == Len(s) <= Len(t) /\ SubSeq(t, 1, Len(s)) = s

RECURSIVE Sum(_)
Sum(ns) == IF ns = <<>> THEN 0 ELSE ns[1] + Sum(Tail(ns))

\* Lines and bytes held by all buffers together.
TotalLines == Sum([i \in 1..Len(buffers) |-> Len(buffers[i].lines)])

TotalBytes ==
    Sum([i \in 1..Len(buffers) |->
            Sum([j \in 1..Len(buffers[i].lines) |-> Len(buffers[i].lines[j])])])

\* The keys a user presses in the current state: in Normal mode a key of
\* `normal`, in Insert mode a key of `insert` as long as the text stays within
\* the bounds of the model, in Command mode a key that keeps the command line
\* a prefix of one of the texts `commands`.
Inputs(normal, insert, commands) ==
    {k \in AllKeys :
        CASE mode = "Normal" -> k \in normal
          [] mode = "Insert" ->
                /\ k \in insert
                /\ k.code = "Char" => TotalBytes + Len(encode_utf8(k.ch)) <= MaxBytes
                /\ k.code = "Enter" => TotalLines < MaxLines
          [] mode = "Command" ->
                /\ k \in CommandKeys
                /\ k.code = "Char" =>
                       \E t \in commands : IsPrefix(Append(command_line, k.ch), t)}

(***************************************************************************)
(* The state machine: Editor::new leaves the editor at the top of the loop *)
(* of Editor::run (pc = "render"); Render is the loop's head up to the     *)
(* read; KeyEvent and OtherEvent are the read and the handler.             *)
(***************************************************************************)
\* Editor::new(buffers) after main built the buffers from args, on a terminal
\* of size sz = (columns, rows).
EditorNew(args, sz) ==
    /\ buffers = main_buffers(args)
    /\ active_buffer = 0
    /\ size = sz
    /\ cx = 0
    /\ cy = 0
    /\ mode = "Normal"
    /\ exit = FALSE
    /\ scroll_offset = 0
    /\ command_line = <<>>
    /\ status_message = None
    /\ pc = "render"
    /\ run_result = <<"Running">>
    /\ key = NoKey
    /\ terminal = [raw_mode |-> TRUE, enables |-> 1, disables |-> 0, size |-> sz]
    /\ overflow_checks = FALSE

\* The editor's fields set from the record e.
Becomes(e) ==
    /\ buffers' = e.buffers
    /\ active_buffer' = e.active_buffer
    /\ size' = e.size
    /\ cx' = e.cx
    /\ cy' = e.cy
    /\ mode' = e.mode
    /\ exit' = e.exit
    /\ scroll_offset' = e.scroll_offset
    /\ command_line' = e.command_line
    /\ status_message' = e.status_message

\* impl Drop for Editor, on the terminal t: the results of the calls are
\* dropped (`let _ =`).
drop(t) == [t EXCEPT !.raw_mode = FALSE, !.disables = @ + 1]

\* Editor::run, from the top of the loop to the read: re-clamp, draw, and
\* leave the loop when the terminate flag is set.  When run returns, main
\* returns and the Editor is dropped.
Render ==
    /\ pc = "render"
    /\ LET e == adjust_cursor_position(Self)
       IN  /\ Becomes(e)
           /\ IF e.ret # "Ok"
              THEN pc' = "done" /\ run_result' = <<e.ret, e.msg>>
                   /\ terminal' = drop(terminal)
              ELSE IF exit
              THEN pc' = "done" /\ run_result' = <<"Ok">> /\ terminal' = drop(terminal)
              ELSE pc' = "read" /\ run_result' = run_result /\ terminal' = terminal
    /\ key' = NoKey
    /\ overflow_checks' = overflow_checks

\* Editor::run: a key event is read and handled by the handler of the mode.
\* An error value ends run with that error, a panic ends the process; on
\* both ways out the Editor is dropped (main returns, or the stack unwinds).
KeyEvent(inputs) ==
    /\ pc = "read"
    /\ \E k \in inputs, write_ok \in BOOLEAN :
          LET e == handle_key(Self, k, write_ok)
          IN  /\ Becomes(e)
              /\ key' = k
              /\ IF e.ret = "Ok"
                 THEN pc' = "render" /\ run_result' = run_result
                      /\ terminal' = terminal
                 ELSE pc' = "done" /\ run_result' = <<e.ret, e.msg>>
                      /\ terminal' = drop(terminal)
    /\ overflow_checks' = overflow_checks

\* Editor::run: any other event (a resize, the mouse, focus) is dropped.
OtherEvent ==
    /\ pc = "read"
    /\ pc' = "render"
    /\ key' = KeyCode("Resize")
    /\ UNCHANGED <<buffers, active_buffer, size, cx, cy, mode, exit, scroll_offset,
                   command_line, status_message, run_result, terminal,
                   overflow_checks>>

(***************************************************************************)
(* Spec: an editing session.  One or two buffers on a terminal of 2, 3 or  *)
(* 4 rows (0, 1 or 2 visible lines); every Normal and Insert key; in       *)
(* Command mode the user types `w`.                                        *)
(***************************************************************************)
Init ==
    \/ \E sz \in {<<80, 2>>, <<80, 3>>, <<80, 4>>} :
          \E args \in {<<>>, <<ThreeLineFile>>} : EditorNew(args, sz)
    \/ EditorNew(<<TwoLineFile, OneLineFile>>, <<80, 4>>)

EditInputs == Inputs(NormalKeys, InsertKeys, {<<"w">>})

Next == Render \/ KeyEvent(EditInputs) \/ OtherEvent

Spec == Init /\ [][Next]_vars

(***************************************************************************)
(* SpecCmd: a command session.  The user deletes lines, switches buffers   *)
(* and types commands; no text is inserted.                                *)
(***************************************************************************)
\* The command texts the user types, a character at a time.
TypedCommands ==
    {<<"q">>, <<"q", "u", "i", "t">>, <<"q", "!">>, <<"q", "u", "i", "t", "!">>,
     <<"w">>, <<"w", "r", "i", "t", "e">>, <<"w", "q">>, <<"w", " ", "h">>,
     <<"x">>}

InitCmd ==
    \E args \in {<<>>, <<MissingFile>>, <<TwoLineFile, OneLineFile>>} :
        EditorNew(args, <<80, 4>>)

CmdInputs ==
    Inputs({KeyChar(":"), KeyChar("d"), KeyChar("n"), KeyChar("p"), KeyChar("j"),
            CtrlChar("w"), KeyChar("u")},
           InsertKeys, TypedCommands)

NextCmd == Render \/ KeyEvent(CmdInputs) \/ OtherEvent

SpecCmd == InitCmd /\ [][NextCmd]_vars

(***************************************************************************)
(* Vocabulary of the properties.                                           *)
(***************************************************************************)
\* The active buffer, its lines and the line under the cursor.
Active == buffers[active_buffer + 1]

Lines == Active.lines

CurLine == Lines[cy + 1]

\* The states right after a render: the loop is at the read, or it left
\* through the terminate flag after its last render.
Rendered == pc = "read" \/ (pc = "done" /\ run_result = <<"Ok">>)

\* The number of visible rows of the terminal.
VisibleRows == SaturatingSub(size[2], 2)

Max(a, b) == IF a >= b THEN a ELSE b

\* The step handles a key that requests Save: Ctrl-w in Normal mode, or
\* Enter on the command w, write or wq.
SaveStep ==
    /\ pc = "read"
    /\ \/ mode = "Normal" /\ key' = CtrlChar("w")
       \/ /\ mode = "Command"
          /\ key' = KeyCode("Enter")
          /\ command_line \in {<<"w">>, <<"w", "r", "i", "t", "e">>, <<"w", "q">>}

\* The step executes the command line `text` (Enter in Command mode).
CommandStep(text) ==
    pc = "read" /\ mode = "Command" /\ key' = KeyCode("Enter") /\ command_line = text

\* The step handles key k in Insert mode.
InsertStep(k) == pc = "read" /\ mode = "Insert" /\ key' = k

GuardMessage == Some(<<"No write since last change (add ! to override)">>)

(***************************************************************************)
(* C1.  When Save fails in the active buffer, the failure is reported as   *)
(* a status message, the run loop keeps running, and the buffer is         *)
(* unchanged: a step that requests Save never ends the loop, and when the  *)
(* buffer has no path (so that Save fails) the step leaves a status        *)
(* message other than "File saved" and the buffers as they were.           *)
(***************************************************************************)
C1_SaveFailureReported ==
    [][SaveStep =>
          /\ pc' = "render"
          /\ Active.file = None =>
                /\ status_message' # None
                /\ status_message' # Some(<<"File saved">>)
                /\ buffers' = buffers]_vars

(***************************************************************************)
(* C2.  Every step that changes the lines of a buffer leaves its           *)
(* is_modified flag true, and the flag is cleared only by a successful     *)
(* save or save_as (which leaves the lines as they are).                   *)
(***************************************************************************)
C2_MutationSetsModified ==
    [][\A i \in 1..Len(buffers) :
          /\ buffers'[i].lines # buffers[i].lines => buffers'[i].is_modified
          /\ (buffers[i].is_modified /\ ~buffers'[i].is_modified) =>
                /\ buffers'[i].lines = buffers[i].lines
                /\ status_message' \in {Some(<<"File saved">>), Some(<<"File saved as">>)}]_vars

(***************************************************************************)
(* C3.  Quit guard: `q` or `quit` on a modified active buffer leaves the   *)
(* terminate flag unset and sets the status message of the guard; `q` or   *)
(* `quit` on an unmodified active buffer sets the terminate flag; `q!` or  *)
(* `quit!` sets it whatever the modified flag.                             *)
(***************************************************************************)
C3_QuitGuard ==
    [][/\ \A text \in {<<"q">>, <<"q", "u", "i", "t">>} :
             CommandStep(text) =>
                IF Active.is_modified
                THEN ~exit' /\ status_message' = GuardMessage
                ELSE exit'
       /\ \A text \in {<<"q", "!">>, <<"q", "u", "i", "t", "!">>} :
             CommandStep(text) => exit']_vars

\* `quit` was refused on a modified buffer: the flag is unset, the message set.
C3_Witness ==
    /\ pc = "render"
    /\ key = KeyCode("Enter")
    /\ Active.is_modified
    /\ ~exit
    /\ status_message = GuardMessage

(***************************************************************************)
(* C4.  No buffer's line sequence is ever empty.                           *)
(***************************************************************************)
C4_LinesNeverEmpty == \A i \in 1..Len(buffers) : Len(buffers[i].lines) >= 1

\* DeleteLine has acted on a buffer of one line: the line is left, emptied.
C4_Witness ==
    /\ pc = "render"
    /\ key = KeyChar("d")
    /\ Active.is_modified
    /\ Lines = <<(<<>>)>>

C7_ScrollClamped ==
    Rendered => scroll_offset <= Max(0, Len(Lines) - VisibleRows)

(***************************************************************************)
(* C8.  Insert-mode Backspace at column 0 of a row r > 0 merges line r     *)
(* into line r-1 and moves the cursor to the join point.                   *)
(***************************************************************************)
C8_BackspaceMerges ==
    [][(InsertStep(KeyCode("Backspace")) /\ cx = 0 /\ cy > 0) =>
          /\ buffers'[active_buffer + 1].lines =
                SubSeq(Lines, 1, cy - 1) \o <<Lines[cy] \o Lines[cy + 1]>>
                    \o SubSeq(Lines, cy + 2, Len(Lines))
          /\ cx' = Len(Lines[cy])
          /\ cy' = cy - 1]_vars

(***************************************************************************)
(* C9.  NewLine with the cursor at (c, r) splits line r at column c: row r *)
(* keeps the text left of c, the new row r+1 holds the text from c on,     *)
(* the other lines are kept, and the cursor moves to (0, r+1).             *)
(***************************************************************************)
C9_NewLineSplits ==
    [][InsertStep(KeyCode("Enter")) =>
          /\ buffers'[active_buffer + 1].lines =
                SubSeq(Lines, 1, cy)
                    \o <<SubSeq(CurLine, 1, cx), SubSeq(CurLine, cx + 1, Len(CurLine))>>
                    \o SubSeq(Lines, cy + 2, Len(Lines))
          /\ cx' = 0
          /\ cy' = cy + 1]_vars

(***************************************************************************)
(* C10.  AddChar(ch) in Insert mode with the cursor at (c, r), c <= len of *)
(* line r, inserts ch at position c of line r, leaves the other lines as   *)
(* they are and advances the column to c+1 on the same row.                *)
(***************************************************************************)
C10_AddCharInserts ==
    [][\A ch \in {"a", "U+E9"} :
          (InsertStep(KeyChar(ch)) /\ cx <= Len(CurLine)) =>
             /\ buffers'[active_buffer + 1].lines =
                   [Lines EXCEPT ![cy + 1] =
                       SubSeq(CurLine, 1, cx) \o encode_utf8(ch)
                           \o SubSeq(CurLine, cx + 1, Len(CurLine))]
             /\ cx' = cx + 1
             /\ cy' = cy]_vars

(***************************************************************************)
(* Saving and loading again (src/src/buffer.rs, save and from_file).  The  *)
(* file written by save is read by from_file of a later start of the       *)
(* editor on the same path.  Between the two steps the file holds what     *)
(* save wrote, the lines of the buffer joined with "\n".                   *)
(***************************************************************************)
MaxFileLines == 3

\* [String]::join(sep)
RECURSIVE Join(_, _)
Join(strs, sep) ==
    IF Len(strs) = 0 THEN <<>>
    ELSE IF Len(strs) = 1 THEN strs[1]
    ELSE strs[1] \o sep \o Join(Tail(strs), sep)

\* Buffer::save(): the contents handed to std::fs::write.
saved_contents(b) == Join(b.lines, <<"\n">>)

\* Texts of a line: valid UTF-8 without a line break.
FileLineTexts == {<<>>, <<"a">>, <<"a", "a">>, <<"C3", "A9">>}

\* The line sequences of a buffer: never empty (C4).
FileLineSeqs ==
    UNION {[1..n -> FileLineTexts] : n \in 1..MaxFileLines}

\* A buffer with a path whose lines were edited.
InitFile ==
    /\ \E ls \in FileLineSeqs :
          buffers = <<[file |-> Some(<<"f">>), lines |-> ls, is_modified |-> TRUE]>>
    /\ active_buffer = 0
    /\ size = <<80, 4>>
    /\ cx = 0
    /\ cy = 0
    /\ mode = "Normal"
    /\ exit = FALSE
    /\ scroll_offset = 0
    /\ command_line = <<>>
    /\ status_message = None
    /\ pc = "edited"
    /\ run_result = <<"Running">>
    /\ key = NoKey
    /\ terminal = [raw_mode |-> TRUE, enables |-> 1, disables |-> 0, size |-> <<80, 4>>]
    /\ overflow_checks = FALSE

\* Buffer::save() with a write that succeeds.
SaveFile ==
    /\ pc = "edited"
    /\ buffers' = <<save(buffers[1], TRUE).buf>>
    /\ pc' = "saved"
    /\ UNCHANGED <<active_buffer, size, cx, cy, mode, exit, scroll_offset,
                   command_line, status_message, run_result, key, terminal,
                   overflow_checks>>

\* Buffer::from_file(path) of the file that save wrote.
LoadFile ==
    /\ pc = "saved"
    /\ buffers' = <<from_file(<<"f">>, TRUE, saved_contents(buffers[1]))>>
    /\ pc' = "loaded"
    /\ UNCHANGED <<active_buffer, size, cx, cy, mode, exit, scroll_offset,
                   command_line, status_message, run_result, key, terminal,
                   overflow_checks>>

NextFile == SaveFile \/ LoadFile

SpecFile == InitFile /\ [][NextFile]_vars

(***************************************************************************)
(* C11.  Saving a buffer and loading the file again yields the same line   *)
(* sequence, also when the sequence ends in one or more empty lines.       *)
(***************************************************************************)
C11_RoundTrip ==
    [][(pc = "saved" /\ pc' = "loaded") =>
          buffers'[1].lines = buffers[1].lines]_vars

(***************************************************************************)
(* SpecBuf: a session over one, two or three buffers.  The user switches   *)
(* buffers, moves, deletes lines and types text.                           *)
(***************************************************************************)
InitBuf ==
    \E args \in {<<OneLineFile>>, <<TwoLineFile, OneLineFile>>,
                 <<TwoLineFile, OneLineFile, MissingFile>>} :
        EditorNew(args, <<80, 4>>)

BufInputs ==
    Inputs({KeyChar("n"), KeyChar("p"), KeyChar("j"), KeyChar("d"), KeyChar("i")},
           {KeyCode("Esc"), KeyCode("Enter"), KeyChar("a")}, {})

NextBuf == Render \/ KeyEvent(BufInputs) \/ OtherEvent

SpecBuf == InitBuf /\ [][NextBuf]_vars

\* The editor after Action a was handled k times in a row.
RECURSIVE Repeat(_, _, _)
Repeat(e, a, k) ==
    IF k = 0 THEN e ELSE Repeat(handle_action(e, a, TRUE), a, k - 1)

(***************************************************************************)
(* C12.  The active buffer index is always an index of the buffer list,    *)
(* and from every state NextBuffer handled as many times as there are      *)
(* buffers leads back to the active buffer, and so does PreviousBuffer.    *)
(***************************************************************************)
C12_BufferCycle ==
    /\ 0 <= active_buffer /\ active_buffer < Len(buffers)
    /\ Repeat(Self, Act("NextBuffer"), Len(buffers)).active_buffer = active_buffer
    /\ Repeat(Self, Act("PreviousBuffer"), Len(buffers)).active_buffer = active_buffer
    /\ Repeat(Self, Act("NextBuffer"), Len(buffers)).ret = "Ok"
    /\ Repeat(Self, Act("PreviousBuffer"), Len(buffers)).ret = "Ok"

\* Of three buffers the last was active, and NextBuffer wrapped to the first.
C12_Witness ==
    /\ pc = "render"
    /\ key = KeyChar("n")
    /\ Len(buffers) = 3
    /\ active_buffer = 0

(***************************************************************************)
(* SpecStart: the process from main's call of Editor::new to its end.      *)
(* Each step of Editor::new that returns a Result is an action that        *)
(* succeeds or fails; a failure is returned by `?` through main, before an *)
(* Editor exists.  The Editor's fields hold the values of the struct       *)
(* literal from the start (size is read by the last step).                 *)
(***************************************************************************)
InitStart ==
    /\ \E args \in {<<>>, <<TwoLineFile>>} : buffers = main_buffers(args)
    /\ active_buffer = 0
    /\ size = <<0, 0>>
    /\ cx = 0
    /\ cy = 0
    /\ mode = "Normal"
    /\ exit = FALSE
    /\ scroll_offset = 0
    /\ command_line = <<>>
    /\ status_message = None
    /\ pc = "enable_raw_mode"
    /\ run_result = <<"Running">>
    /\ key = NoKey
    /\ terminal = [raw_mode |-> FALSE, enables |-> 0, disables |-> 0, size |-> <<80, 4>>]
    /\ overflow_checks = FALSE

\* A step of Editor::new returns Err: main returns it; no Editor was built,
\* so none is dropped.
SetupFails(step) ==
    /\ pc' = "done"
    /\ run_result' = <<"Err", <<step>>>>

\* terminal::enable_raw_mode()?
EnableRawMode ==
    /\ pc = "enable_raw_mode"
    /\ \E ok \in BOOLEAN :
          IF ok
          THEN /\ terminal' = [terminal EXCEPT !.raw_mode = TRUE, !.enables = @ + 1]
               /\ pc' = "enter_alternate_screen"
               /\ run_result' = run_result
          ELSE SetupFails("enable_raw_mode") /\ terminal' = terminal
    /\ UNCHANGED <<buffers, active_buffer, size, cx, cy, mode, exit, scroll_offset,
                   command_line, status_message, key, overflow_checks>>

\* stdout.execute(terminal::EnterAlternateScreen)?
EnterAlternateScreen ==
    /\ pc = "enter_alternate_screen"
    /\ \E ok \in BOOLEAN :
          IF ok
          THEN pc' = "clear" /\ run_result' = run_result
          ELSE SetupFails("EnterAlternateScreen")
    /\ UNCHANGED <<buffers, active_buffer, size, cx, cy, mode, exit, scroll_offset,
                   command_line, status_message, key, terminal,
                   overflow_checks>>

\* .execute(terminal::Clear(ClearType::All))?
ClearScreen ==
    /\ pc = "clear"
    /\ \E ok \in BOOLEAN :
          IF ok
          THEN pc' = "show_cursor" /\ run_result' = run_result
          ELSE SetupFails("Clear")
    /\ UNCHANGED <<buffers, active_buffer, size, cx, cy, mode, exit, scroll_offset,
                   command_line, status_message, key, terminal,
                   overflow_checks>>

\* stdout.execute(cursor::Show)?
ShowCursor ==
    /\ pc = "show_cursor"
    /\ \E ok \in BOOLEAN :
          IF ok
          THEN pc' = "size" /\ run_result' = run_result
          ELSE SetupFails("cursor::Show")
    /\ UNCHANGED <<buffers, active_buffer, size, cx, cy, mode, exit, scroll_offset,
                   command_line, status_message, key, terminal,
                   overflow_checks>>

\* size: terminal::size()? and Ok(Editor { .. }); main then calls run.
QuerySize ==
    /\ pc = "size"
    /\ \E ok \in BOOLEAN :
          IF ok
          THEN pc' = "render" /\ run_result' = run_result /\ size' = terminal.size
          ELSE SetupFails("terminal::size") /\ size' = size
    /\ UNCHANGED <<buffers, active_buffer, cx, cy, mode, exit, scroll_offset,
                   command_line, status_message, key, terminal,
                   overflow_checks>>

StartInputs ==
    Inputs({KeyChar(":"), KeyChar("d"), KeyChar("i"), CtrlChar("w")},
           {KeyCode("Esc"), KeyChar("a"), KeyChar("U+E9")},
           {<<"q">>, <<"q", "!">>, <<"w">>})

NextStart ==
    \/ EnableRawMode
    \/ EnterAlternateScreen
    \/ ClearScreen
    \/ ShowCursor
    \/ QuerySize
    \/ Render
    \/ KeyEvent(StartInputs)
    \/ OtherEvent

SpecStart == InitStart /\ [][NextStart]_vars

(***************************************************************************)
(* C13.  On every way out of the process after raw mode was enabled (quit, *)
(* an error or panic out of the run loop, an error of a later step of      *)
(* Editor::new) raw mode has been disabled again, exactly once.            *)
(***************************************************************************)
C13_RawModeReleased ==
    (pc = "done" /\ terminal.enables > 0) =>
        ~terminal.raw_mode /\ terminal.disables = 1

(***************************************************************************)
(* C14.  Whenever the mode is not Command the command line is empty: it is *)
(* empty at the start, every step into Command mode starts with an empty   *)
(* command line, and every step that ends outside Command mode (Esc, or    *)
(* Enter whatever the command) leaves it empty.                            *)
(***************************************************************************)
C14_CommandLineEmpty ==
    /\ mode # "Command" => command_line = <<>>
    /\ [][/\ mode' # "Command" => command_line' = <<>>
          /\ (mode # "Command" /\ mode' = "Command") => command_line' = <<>>]_vars

\* The text `x` was typed and run by Enter: back in Normal mode, no text left.
C14_Witness ==
    /\ pc = "render"
    /\ key = KeyCode("Enter")
    /\ mode = "Normal"
    /\ status_message = Some(<<"Unknown command: ", <<"x">>>>)
    /\ command_line = <<>>

\* The step handles the key `d` in Normal mode (Action::DeleteLine).
DeleteLineStep == pc = "read" /\ mode = "Normal" /\ key' = KeyChar("d")

(***************************************************************************)
(* C15.  remove_line(row) on any buffer of the session: with row in range  *)
(* it returns the text of line row and sets modified; of several lines     *)
(* exactly line row is removed, the others keep text and order; the only   *)
(* line is left in place, emptied.  With row out of range it returns an    *)
(* error and the buffer is unchanged.  A DeleteLine step does this to the  *)
(* active buffer at the cursor row and leaves the other buffers alone.     *)
(***************************************************************************)
C15_RemoveLine ==
    /\ \A i \in 1..Len(buffers) :
          \A row \in 0..(Len(buffers[i].lines) + 1) :
             LET b == buffers[i]
                 n == Len(b.lines)
                 r == remove_line(b, row)
             IN  IF row < n
                 THEN /\ r.ret = "Ok"
                      /\ r.line = b.lines[row + 1]
                      /\ r.buf.is_modified
                      /\ r.buf.file = b.file
                      /\ IF n > 1
                         THEN /\ Len(r.buf.lines) = n - 1
                              /\ \A j \in 1..row : r.buf.lines[j] = b.lines[j]
                              /\ \A j \in (row + 1)..(n - 1) : r.buf.lines[j] = b.lines[j + 1]
                         ELSE r.buf.lines = <<(<<>>)>>
                 ELSE r.ret = "Err" /\ r.buf = b
    /\ [][DeleteLineStep =>
             /\ pc' = "render"
             /\ buffers'[active_buffer + 1].is_modified
             /\ buffers'[active_buffer + 1].lines =
                   IF Len(Lines) > 1
                   THEN SubSeq(Lines, 1, cy) \o SubSeq(Lines, cy + 2, Len(Lines))
                   ELSE <<(<<>>)>>
             /\ \A i \in 1..Len(buffers) :
                   i # active_buffer + 1 => buffers'[i] = buffers[i]]_vars

\* DeleteLine removed the empty middle line of the three-line file.
C15_Witness ==
    /\ pc = "render"
    /\ key = KeyChar("d")
    /\ cy = 1
    /\ Active.is_modified
    /\ Lines = <<(<<"a">>), <<"C3", "A9">>>>

(***************************************************************************)
(* C16.  No sequence of keys ends the run loop through a position that is  *)
(* out of bounds: the loop never ends with the error of an invalid line or *)
(* column index, nor with the panic of a String operation at a column that *)
(* is not a character position of the line.                                *)
(***************************************************************************)
C16_NoBoundsExit ==
    pc = "done" =>
        /\ run_result[1] # "Panic"
        /\ run_result # <<"Err", <<"Invalid line index">>>>
        /\ run_result # <<"Err", <<"Invalid column index">>>>

(***************************************************************************)
(* SpecResize: a session during which the terminal is resized.  The        *)
(* terminal takes its new size and the read returns Event::Resize, which   *)
(* is not Event::Key: the loop goes round without calling a handler.       *)
(***************************************************************************)
TerminalSizes == {<<80, 3>>, <<80, 4>>, <<80, 5>>}

InitResize ==
    \E sz \in TerminalSizes : EditorNew(<<ThreeLineFile>>, sz)

\* Editor::run: the terminal was resized to sz and Event::Resize is read.
ResizeEvent ==
    /\ pc = "read"
    /\ \E sz \in TerminalSizes \ {terminal.size} :
          terminal' = [terminal EXCEPT !.size = sz]
    /\ pc' = "render"
    /\ key' = KeyCode("Resize")
    /\ UNCHANGED <<buffers, active_buffer, size, cx, cy, mode, exit, scroll_offset,
                   command_line, status_message, run_result, overflow_checks>>

ResizeInputs ==
    Inputs({KeyChar("j"), KeyChar("k"), CtrlChar("d"), CtrlChar("u"), KeyChar("i")},
           {KeyCode("Esc"), KeyChar("a")}, {})

NextResize == Render \/ KeyEvent(ResizeInputs) \/ ResizeEvent

SpecResize == InitResize /\ [][NextResize]_vars

\* The step reads a resize event.
ResizeStep == pc = "read" /\ key' = KeyCode("Resize") /\ terminal'.size # terminal.size

(***************************************************************************)
(* C17.  A resize event makes the recorded size the terminal's new size,   *)
(* calls no handler (buffers, mode and command line stay as they are), and *)
(* the render that follows clamps cursor and scroll against the new size.  *)
(***************************************************************************)
C17_ResizeUpdatesSize ==
    [][ResizeStep =>
          /\ size' = terminal'.size
          /\ buffers' = buffers
          /\ mode' = mode
          /\ command_line' = command_line
          /\ pc' = "render"]_vars

(***************************************************************************)
(* C18.  The mode starts as Normal.  A step changes it only along the      *)
(* edges Normal -> Command on `:`, Normal -> Insert on `i`, Insert ->      *)
(* Normal on Esc, Command -> Normal on Esc or Enter (so never between      *)
(* Insert and Command); these keys do take their edge (Enter when the      *)
(* command returns without error), and a resize or other event changes     *)
(* nothing.                                                                *)
(***************************************************************************)
C18_ModeEdges ==
    /\ mode = "Normal"
    /\ [][/\ mode' # mode =>
                \/ mode = "Normal" /\ mode' = "Command" /\ key' = KeyChar(":")
                \/ mode = "Normal" /\ mode' = "Insert" /\ key' = KeyChar("i")
                \/ mode = "Insert" /\ mode' = "Normal" /\ key' = KeyCode("Esc")
                \/ mode = "Command" /\ mode' = "Normal"
                      /\ key' \in {KeyCode("Esc"), KeyCode("Enter")}
          /\ (pc = "read" /\ mode = "Normal" /\ key' = KeyChar(":")) => mode' = "Command"
          /\ (pc = "read" /\ mode = "Normal" /\ key' = KeyChar("i")) => mode' = "Insert"
          /\ (pc = "read" /\ mode # "Normal" /\ key' = KeyCode("Esc")) => mode' = "Normal"
          /\ (pc = "read" /\ mode = "Command" /\ key' = KeyCode("Enter")
                 /\ pc' = "render") => mode' = "Normal"]_vars

\* Enter ran the command `w` and the mode went from Command back to Normal.
C18_Witness ==
    /\ pc = "render"
    /\ key = KeyCode("Enter")
    /\ mode = "Normal"
    /\ status_message = Some(<<"File saved">>)

(***************************************************************************)
(* C19.  Insert-mode Backspace with the cursor at column c > 0 of row r,   *)
(* on a line of one-byte characters (where character and byte positions    *)
(* agree): exactly the character at c-1 is removed, the other lines are    *)
(* kept, and the cursor is left at (c-1, r).                               *)
(***************************************************************************)
C19_BackspaceRemovesOne ==
    [][(/\ InsertStep(KeyCode("Backspace"))
        /\ cx > 0
        /\ cx <= Len(CurLine)
        /\ \A j \in 1..Len(CurLine) : CurLine[j] = "a") =>
          /\ buffers'[active_buffer + 1].lines =
                [Lines EXCEPT ![cy + 1] =
                    SubSeq(CurLine, 1, cx - 1) \o SubSeq(CurLine, cx + 1, Len(CurLine))]
          /\ cx' = cx - 1
          /\ cy' = cy]_vars

(***************************************************************************)
(* SpecRows: moving by rows where the u16 arithmetic reaches its limits.   *)
(* A file of 65535, 65536 or 65537 empty lines on a terminal of 4 rows,    *)
(* and a file of 4 lines on a terminal of 4 or of 65535 rows; a build with *)
(* and one without overflow checks.  The user moves down from the rows     *)
(* above MaxRow only, and up from everywhere.                              *)
(***************************************************************************)
MaxRow == 6

\* Buffer::from_file of a file of n empty lines.
LongBuffer(n) ==
    [file |-> Some(<<"f">>), lines |-> [i \in 1..n |-> <<>>], is_modified |-> FALSE]

RowCases ==
    {[len |-> n, size |-> <<80, 4>>] :
        n \in {4, U16Modulus - 1, U16Modulus, U16Modulus + 1}}
        \cup {[len |-> 4, size |-> <<80, U16Modulus - 1>>]}

InitRows ==
    \E c \in RowCases, checks \in BOOLEAN :
        /\ buffers = <<LongBuffer(c.len)>>
        /\ active_buffer = 0
        /\ size = c.size
        /\ cx = 0
        /\ cy = 0
        /\ mode = "Normal"
        /\ exit = FALSE
        /\ scroll_offset = 0
        /\ command_line = <<>>
        /\ status_message = None
        /\ pc = "render"
        /\ run_result = <<"Running">>
        /\ key = NoKey
        /\ terminal = [raw_mode |-> TRUE, enables |-> 1, disables |-> 0, size |-> c.size]
        /\ overflow_checks = checks

RowInputs ==
    Inputs({KeyChar("k"), CtrlChar("u")}
               \cup IF cy < MaxRow
                    THEN {KeyChar("j"), KeyCode("Down"), CtrlChar("d")}
                    ELSE {},
           {}, {})

NextRows == Render \/ KeyEvent(RowInputs)

SpecRows == InitRows /\ [][NextRows]_vars

\* The step handles key k in Normal mode.
NormalStep(k) == pc = "read" /\ mode = "Normal" /\ key' = k

(***************************************************************************)
(* C20.  For every buffer length and terminal height MoveDown moves the    *)
(* row down by one and PageDown / PageUp move it by visible_rows, stopping *)
(* at the last line len - 1 and at row 0, and no step of the arithmetic on *)
(* the row ends the process: neither the key nor the render after it       *)
(* panics, and no row wraps around.                                        *)
(***************************************************************************)
C20_RowMovesSaturate ==
    [][/\ NormalStep(KeyChar("j")) =>
             pc' = "render" /\ cy' = Min(cy + 1, Len(Lines) - 1)
       /\ NormalStep(CtrlChar("d")) =>
             pc' = "render" /\ cy' = Min(cy + VisibleRows, Len(Lines) - 1)
       /\ NormalStep(CtrlChar("u")) =>
             pc' = "render" /\ cy' = Max(cy - VisibleRows, 0)
       /\ (pc = "render" /\ ~exit) => pc' = "read"]_vars

(***************************************************************************)
(* C21.  With several buffers open, `q` or `quit` sets the terminate flag  *)
(* only when no buffer of the session has unsaved changes, the buffers     *)
(* that are not active included.                                           *)
(***************************************************************************)
C21_QuitGuardAllBuffers ==
    [][\A text \in {<<"q">>, <<"q", "u", "i", "t">>} :
          (CommandStep(text) /\ exit') =>
             \A i \in 1..Len(buffers) : ~buffers[i].is_modified]_vars

====
